---- MODULE Spec2Model ----
(***************************************************************************)
(* Model of update_sit_status.py: one run of                               *)
(* JiraStatusUpdater.task1_check_jenkins_release.  Text values on which    *)
(* the code does character-level work (the Jenkins url, the build display  *)
(* name, the JQL query, the custom field name and values) are sequences of *)
(* Unicode code points.  Each action is the code between two external      *)
(* calls; the answer of the external service is drawn with \E.             *)
(***************************************************************************)
EXTENDS Integers, Sequences, FiniteSets, TLC

(* ---------------- bounds ---------------- *)
MaxNameLen == 2
MaxUrlLen == 2
NumIssues == 3

(* ---------------- program constants ---------------- *)
CustomFieldNumber == 10803

\* code points of the characters the code tests for
Hash == 35
Newline == 10
Slash == 47
AsciiZero == 48

\* 'api/json'
ApiSuffix == <<97, 112, 105, 47, 106, 115, 111, 110>>
\* 'fixVersion='
FixVersionEq == <<102, 105, 120, 86, 101, 114, 115, 105, 111, 110, 61>>
\* ' AND cf['
AndCf == <<32, 65, 78, 68, 32, 99, 102, 91>>
\* ']="Pending automated test"'
CloseEqPending == <<93, 61, 34, 80, 101, 110, 100, 105, 110, 103, 32, 97, 117, 116, 111, 109, 97, 116, 101, 100, 32, 116, 101, 115, 116, 34>>
\* 'Pending automated test'
PendingValue == <<80, 101, 110, 100, 105, 110, 103, 32, 97, 117, 116, 111, 109, 97, 116, 101, 100, 32, 116, 101, 115, 116>>
\* 'Success (automated regression test)'
SuccessValue == <<83, 117, 99, 99, 101, 115, 115, 32, 40, 97, 117, 116, 111, 109, 97, 116, 101, 100, 32, 114, 101, 103, 114, 101, 115, 115, 105, 111, 110, 32, 116, 101, 115, 116, 41>>
\* 'customfield_'
CustomfieldPrefix == <<99, 117, 115, 116, 111, 109, 102, 105, 101, 108, 100, 95>>

(* ---------------- input domains ---------------- *)
\* '#', '1', 'a', newline, and U+0663 ARABIC-INDIC DIGIT THREE
NameChars == {Hash, 49, 97, Newline, 1635}
\* 'h' and '/'
UrlChars == {104, Slash}
Results == {"SUCCESS", "FAILURE", "UNSTABLE", "ABORTED", "null"}
FetchOutcomes == {"ok", "Timeout", "ConnectionError", "HTTPError", "JSONDecodeError"}
LoginOutcomes == {"ok", "JIRAError", "ConnectionError"}
SearchOutcomes == {"ok", "JIRAError"}
UpdateOutcomes == {"ok", "JIRAError", "JIRAErrorAfterApply"}
Issues == 1..NumIssues

SeqsUpTo(S, n) == UNION {[1..k -> S] : k \in 0..n}
DisplayNames == SeqsUpTo(NameChars, MaxNameLen)
Urls == SeqsUpTo(UrlChars, MaxUrlLen)

NoData == [displayName |-> <<>>, result |-> "null"]

VARIABLES url, pc, exc, data, label, jira, issues, idx, tracker, calls, log, outcomes

vars == <<url, pc, exc, data, label, jira, issues, idx, tracker, calls, log, outcomes>>

(* ---------------- pure helpers ---------------- *)
\* the code point of '0' in every block of Unicode decimal digits (category Nd,
\* Unicode 14.0); each block holds the ten digits 0..9 in order
NdZeros == {48, 1632, 1776, 1984, 2406, 2534, 2662, 2790, 2918, 3046, 3174, 3302,
            3430, 3558, 3664, 3792, 3872, 4160, 4240, 6112, 6160, 6470, 6608, 6784,
            6800, 6992, 7088, 7232, 7248, 42528, 43216, 43264, 43472, 43504, 43600,
            44016, 65296, 66720, 68912, 69734, 69872, 69942, 70096, 70384, 70736,
            70864, 71248, 71360, 71472, 71904, 72016, 72784, 73040, 73120, 92768,
            92864, 93008, 120782, 120792, 120802, 120812, 120822, 123200, 123632,
            125264, 130032}

\* \d of a str pattern: any Unicode decimal digit
IsDigit(c) == \E z \in NdZeros : z <= c /\ c <= z + 9

RECURSIVE IntToStr(_)
IntToStr(n) == IF n < 10 THEN <<AsciiZero + n>>
               ELSE IntToStr(n \div 10) \o <<AsciiZero + (n % 10)>>

EndsWithSlashAlways(u) == TRUE

EndsWithSlash(u) == Len(u) > 0 /\ u[Len(u)] = Slash

ApiUrl(u) == u \o ApiSuffix

IsUnlabelledNever(name) == FALSE

\* re.compile(r"^#\d*$").match(name): '#', then zero or more digits, then the
\* end of the string or a single newline that ends the string.
IsUnlabelled(name) ==
    /\ Len(name) >= 1
    /\ name[1] = Hash
    /\ \E e \in {Len(name) - 1, Len(name)} :
          /\ e >= 1
          /\ e = Len(name) \/ name[Len(name)] = Newline
          /\ \A i \in 2..e : IsDigit(name[i])

ResultIsSuccessLoose(result) == result # "FAILURE"

ResultIsSuccess(result) == result = "SUCCESS"

JqlQuery(release_name, customfield_number) ==
    FixVersionEq \o release_name \o AndCf \o IntToStr(customfield_number) \o CloseEqPending

FieldName(customfield_number) == CustomfieldPrefix \o IntToStr(customfield_number)

FetchRaisesOnlyTransport(outcome) == outcome \in {"Timeout", "ConnectionError"}

FetchRaises(outcome) == outcome # "ok"

TruthyAlways(list) == TRUE

Truthy(list) == Len(list) > 0

IssueAtFirst(list, i) == list[1]

IssueAt(list, i) == list[i]

UpdateRaisesNever(outcome) == FALSE

UpdateRaises(outcome) == outcome # "ok"

\* what the tracker answers to the query: the issues of the release whose field
\* holds the pending value, each once, in the tracker's order
SearchResults == {s \in SeqsUpTo(Issues, NumIssues) :
                    /\ \A i \in 1..Len(s) : tracker[s[i]] = PendingValue
                    /\ \A i, j \in 1..Len(s) : i # j => s[i] # s[j]}

Call(op, arg, issue, value) == [op |-> op, arg |-> arg, issue |-> issue, value |-> value]

LogEntry(level, event, name, count) ==
    [level |-> level, event |-> event, name |-> name, count |-> count]

Updating(list) == LogEntry("INFO", "updating", <<>>, Len(list))

Updated(list) == LogEntry("INFO", "updated", <<>>, Len(list))

(* ---------------- initial state ---------------- *)
Init ==
    /\ url \in Urls
    /\ pc = "start"
    /\ exc = "none"
    /\ data = NoData
    /\ label = "none"
    /\ jira = "unset"
    /\ issues = <<>>
    /\ idx = 0
    /\ tracker \in [Issues -> {PendingValue, SuccessValue}]
    /\ calls = <<>>
    /\ log = <<>>
    /\ outcomes = [fetch |-> "none", login |-> "none", search |-> "none", update |-> "none"]

(* ---------------- actions ---------------- *)
\* jenkins_query(self.args.jenkins_url)
JenkinsQuery ==
    /\ pc = "start"
    /\ IF ~EndsWithSlash(url)
       THEN /\ pc' = "raised"
            /\ exc' = "AssertionError"
            /\ UNCHANGED <<data, calls, log, outcomes>>
       ELSE \E outcome \in FetchOutcomes, name \in DisplayNames, result \in Results :
            /\ log' = Append(log, LogEntry("INFO", "fetching", url, 0))
            /\ calls' = Append(calls, Call("GET", ApiUrl(url), 0, <<>>))
            /\ outcomes' = [outcomes EXCEPT !.fetch = outcome]
            /\ IF FetchRaises(outcome)
               THEN /\ pc' = "raised"
                    /\ exc' = outcome
                    /\ UNCHANGED data
               ELSE /\ pc' = "fetched"
                    /\ data' = [displayName |-> name, result |-> result]
                    /\ UNCHANGED exc
    /\ UNCHANGED <<url, label, jira, issues, idx, tracker>>

\* task1_check_jenkins_release after the fetch: classify and decide
CheckRelease ==
    /\ pc = "fetched"
    /\ IF IsUnlabelled(data.displayName)
       THEN /\ label' = "unlabelled"
            /\ log' = Append(log, LogEntry("INFO", "unlabelled", data.displayName, 0))
            /\ pc' = "done"
       ELSE /\ label' = "labelled"
            /\ IF ResultIsSuccess(data.result)
               THEN /\ log' = Append(log, LogEntry("INFO", "searching", <<>>, 0))
                    /\ pc' = "login"
               ELSE /\ log' = Append(log, LogEntry("ERROR", "failed", data.displayName, 0))
                    /\ pc' = "done"
    /\ UNCHANGED <<url, exc, data, jira, issues, idx, tracker, calls, outcomes>>

\* self.jira_login()
JiraLogin ==
    /\ pc = "login"
    /\ \E outcome \in LoginOutcomes :
        /\ calls' = Append(calls, Call("LOGIN", <<>>, 0, <<>>))
        /\ outcomes' = [outcomes EXCEPT !.login = outcome]
        /\ CASE outcome = "ok" ->
                  /\ log' = Append(log, LogEntry("INFO", "login_ok", <<>>, 0))
                  /\ jira' = "session"
                  /\ pc' = "search"
                  /\ UNCHANGED exc
             [] outcome = "JIRAError" ->
                  /\ log' = Append(log, LogEntry("ERROR", "login_failed", <<>>, 0))
                  /\ jira' = "None"
                  /\ pc' = "search"
                  /\ UNCHANGED exc
             [] OTHER ->
                  /\ pc' = "raised"
                  /\ exc' = outcome
                  /\ UNCHANGED <<log, jira>>
    /\ UNCHANGED <<url, data, label, issues, idx, tracker>>

\* <login result>.search_issues(query) and the branch on the result
SearchIssues ==
    /\ pc = "search"
    /\ IF jira = "None"
       THEN /\ pc' = "raised"
            /\ exc' = "AttributeError"
            /\ UNCHANGED <<issues, idx, calls, log, outcomes>>
       ELSE \E outcome \in SearchOutcomes, found \in SearchResults :
            /\ calls' = Append(calls,
                   Call("SEARCH", JqlQuery(data.displayName, CustomFieldNumber), 0, <<>>))
            /\ outcomes' = [outcomes EXCEPT !.search = outcome]
            /\ IF outcome # "ok"
               THEN /\ pc' = "raised"
                    /\ exc' = outcome
                    /\ UNCHANGED <<issues, idx, log>>
               ELSE /\ issues' = found
                    /\ UNCHANGED exc
                    /\ IF Truthy(found)
                       THEN
                            /\ idx' = 1
                            /\ IF Len(found) >= 1
                               THEN /\ log' = Append(log, Updating(found))
                                    /\ pc' = "update"
                               ELSE /\ log' = Append(Append(log, Updating(found)), Updated(found))
                                    /\ pc' = "done"
                       ELSE /\ log' = Append(log, LogEntry("INFO", "no_issues", data.displayName, 0))
                            /\ UNCHANGED idx
                            /\ pc' = "done"
    /\ UNCHANGED <<url, data, label, jira, tracker>>

\* one iteration of: for issue in issues: issue.update(fields=...), and after
\* the last one the summary log
UpdateIssue ==
    /\ pc = "update"
    /\ \E outcome \in UpdateOutcomes :
        LET issue == IssueAt(issues, idx) IN
        /\ calls' = Append(calls,
               Call("UPDATE", FieldName(CustomFieldNumber), issue, SuccessValue))
        /\ outcomes' = [outcomes EXCEPT !.update = outcome]
        /\ tracker' = IF outcome \in {"ok", "JIRAErrorAfterApply"}
                      THEN [tracker EXCEPT ![issue] = SuccessValue]
                      ELSE tracker
        /\ IF UpdateRaises(outcome)
           THEN /\ pc' = "raised"
                /\ exc' = "JIRAError"
                /\ UNCHANGED <<idx, log>>
           ELSE /\ idx' = idx + 1
                /\ UNCHANGED exc
                /\ IF idx + 1 > Len(issues)
                   THEN /\ log' = Append(log, Updated(issues))
                        /\ pc' = "done"
                   ELSE /\ pc' = "update"
                        /\ UNCHANGED log
    /\ UNCHANGED <<url, data, label, jira, issues>>

Next ==
    \/ JenkinsQuery
    \/ CheckRelease
    \/ JiraLogin
    \/ SearchIssues
    \/ UpdateIssue

Spec == Init /\ [][Next]_vars

(* ---------------- vocabulary of the properties ---------------- *)
TrackerOps == {"LOGIN", "SEARCH", "UPDATE"}

CountOp(op) == Cardinality({i \in 1..Len(calls) : calls[i].op = op})

NoTrackerCall == \A i \in 1..Len(calls) : calls[i].op \notin TrackerOps

HasLog(event) == \E i \in 1..Len(log) : log[i].event = event

LastLog == log[Len(log)]

\* the default Jenkins display name: '#' followed by one or more digits 0-9
MatchesHashDigits(name) ==
    /\ Len(name) >= 2
    /\ name[1] = Hash
    /\ \A i \in 2..Len(name) : name[i] \in 48..57

ExpectedQuery(name) ==
    FixVersionEq \o name \o AndCf \o <<49, 48, 56, 48, 51>> \o CloseEqPending

ExpectedField == CustomfieldPrefix \o <<49, 48, 56, 48, 51>>

LabelledSuccess == label = "labelled" /\ data.result = "SUCCESS"

(* ---------------- C1 ---------------- *)
\* a call to the issue tracker raised out of the program (a login failure the
\* program catches is not one of these)
TrackerCallRaised ==
    \/ outcomes.login = "ConnectionError"
    \/ outcomes.search = "JIRAError"
    \/ outcomes.update \in {"JIRAError", "JIRAErrorAfterApply"}

\* C1: for a labelled build whose result is SUCCESS, the finished run has
\* issued exactly one search, whose release filter is the display name and
\* whose status filter is "Pending automated test" on field 10803; every
\* returned issue holds the success value in field 10803, and the summary log
\* carries the number of returned issues.  Stated for the runs in which no
\* issue-tracker call raises out of the program, and with the summary log
\* required only when at least one issue was returned.
C1_LabelledSuccessSync ==
    (pc \in {"done", "raised"} /\ LabelledSuccess /\ ~TrackerCallRaised) =>
        /\ CountOp("SEARCH") = 1
        /\ \A i \in 1..Len(calls) :
              calls[i].op = "SEARCH" => calls[i].arg = ExpectedQuery(data.displayName)
        /\ \A i \in 1..Len(calls) :
              calls[i].op = "UPDATE" =>
                  calls[i].arg = ExpectedField /\ calls[i].value = SuccessValue
        /\ \A j \in 1..Len(issues) : tracker[issues[j]] = SuccessValue
        /\ Len(issues) > 0 =>
              /\ LastLog.event = "updated"
              /\ LastLog.count = Len(issues)

(* ---------------- C2 ---------------- *)
\* C2: the issue tracker is contacted only for a build that is labelled and
\* whose result is SUCCESS; a run for any other build ends after one log line
\* with no login, search or update; a build named '#<digits>' never causes an
\* issue-tracker call, whatever its result.
C2_SyncOnlyLabelledSuccess ==
    /\ (~NoTrackerCall \/ pc \in {"login", "search", "update"}) =>
          /\ outcomes.fetch = "ok"
          /\ label = "labelled"
          /\ ~MatchesHashDigits(data.displayName)
          /\ data.result = "SUCCESS"
    /\ (pc = "done" /\ ~LabelledSuccess) =>
          /\ NoTrackerCall
          /\ LastLog.event \in {"unlabelled", "failed"}
          /\ LastLog.name = data.displayName
    /\ (outcomes.fetch = "ok" /\ MatchesHashDigits(data.displayName)) =>
          /\ NoTrackerCall
          /\ pc \in {"fetched", "done"}

C2_Witness ==
    /\ pc = "done"
    /\ MatchesHashDigits(data.displayName)
    /\ data.result = "SUCCESS"
    /\ Len(calls) = 1

(* ---------------- C3 ---------------- *)
\* C3: for a labelled build whose result is not SUCCESS the run ends with no
\* login, search or update, and its last log entry is the error naming the
\* release.
C3_LabelledFailure ==
    (label = "labelled" /\ data.result # "SUCCESS") =>
        /\ pc = "done"
        /\ exc = "none"
        /\ NoTrackerCall
        /\ LastLog = LogEntry("ERROR", "failed", data.displayName, 0)

C3_Witness ==
    /\ pc = "done"
    /\ label = "labelled"
    /\ data.result = "null"
    /\ Len(data.displayName) > 0

(* ---------------- C4 ---------------- *)
\* C4: when the login to the issue tracker fails the failure is logged, no
\* issue is updated, and no exception escapes: the run is never in the raised
\* state.
C4_LoginFailureSoft ==
    outcomes.login = "JIRAError" =>
        /\ HasLog("login_failed")
        /\ CountOp("UPDATE") = 0
        /\ pc # "raised"
        /\ exc = "none"

(* ---------------- C5 ---------------- *)
\* C5: no call is made before the CI fetch, and when the CI fetch fails
\* (timeout, connection error, non-2xx answer, unparsable body) the run is in
\* the raised state with that error and its only external call is the GET: no
\* login, search or update before or after.
C5_FetchFailureRaises ==
    /\ pc = "start" => calls = <<>>
    /\ outcomes.fetch \in {"Timeout", "ConnectionError", "HTTPError", "JSONDecodeError"} =>
          /\ pc = "raised"
          /\ exc = outcomes.fetch
          /\ label = "none"
          /\ Len(calls) = 1
          /\ calls[1].op = "GET"

C5_Witness ==
    /\ pc = "raised"
    /\ outcomes.fetch = "HTTPError"
    /\ \E i \in Issues : tracker[i] = PendingValue

(* ---------------- C6 ---------------- *)
\* C6: when the search returns no issue the run is complete without an
\* exception, its last log entry is the "no issues found" notice naming the
\* release, no update call was made, and neither the "Updating N" nor the
\* "N issues were updated" entry is in the log.
C6_EmptySearch ==
    (outcomes.search = "ok" /\ Len(issues) = 0) =>
        /\ pc = "done"
        /\ exc = "none"
        /\ LastLog = LogEntry("INFO", "no_issues", data.displayName, 0)
        /\ CountOp("UPDATE") = 0
        /\ ~HasLog("updating")
        /\ ~HasLog("updated")

C6_Witness ==
    /\ outcomes.search = "ok"
    /\ issues = <<>>
    /\ pc = "done"
    /\ CountOp("SEARCH") = 1

(* ---------------- C7 ---------------- *)
\* C7: a display name is classified unlabelled if and only if it is '#'
\* followed by one or more digits and nothing else.
C7_ClassificationIff ==
    label # "none" =>
        (label = "unlabelled" <=> MatchesHashDigits(data.displayName))

(* ---------------- C8 ---------------- *)
\* C8: the external calls of a run are a prefix of: one GET, one login, one
\* search, one update per returned issue in result order; a login happens only
\* for a labelled SUCCESS build; a run that completes has made the GET, and on
\* the labelled SUCCESS path has made all of them, each once.
C8_CallOrder ==
    /\ \A i \in 1..Len(calls) :
          /\ i = 1 => calls[i].op = "GET"
          /\ i = 2 => calls[i].op = "LOGIN"
          /\ i = 3 => calls[i].op = "SEARCH"
          /\ i >= 4 => /\ calls[i].op = "UPDATE"
                       /\ i - 3 <= Len(issues)
                       /\ calls[i].issue = issues[i - 3]
    /\ Len(calls) >= 2 => LabelledSuccess
    /\ pc = "done" => Len(calls) >= 1
    /\ (pc = "done" /\ LabelledSuccess) => Len(calls) = 3 + Len(issues)

C8_Witness ==
    /\ pc = "done"
    /\ Len(calls) = 6
    /\ calls[6].op = "UPDATE"

(* ---------------- C9 ---------------- *)
\* C9: if the update of the k-th returned issue raises, the run is in the
\* raised state; the k-1 issues before it hold the success value, the issues
\* after it were never the target of an update call and hold the pending
\* value, and the log has the "Updating N" entry but not the "N issues were
\* updated" entry.
C9_PartialFailure ==
    outcomes.update \in {"JIRAError", "JIRAErrorAfterApply"} =>
        /\ pc = "raised"
        /\ exc = "JIRAError"
        /\ CountOp("UPDATE") = idx
        /\ \A j \in 1..Len(issues) :
              /\ j < idx => tracker[issues[j]] = SuccessValue
              /\ j > idx => /\ tracker[issues[j]] = PendingValue
                            /\ \A i \in 1..Len(calls) :
                                  calls[i].op = "UPDATE" => calls[i].issue # issues[j]
        /\ \E i \in 1..Len(log) : log[i].event = "updating" /\ log[i].count = Len(issues)
        /\ ~HasLog("updated")

C9_Witness ==
    /\ pc = "raised"
    /\ outcomes.update = "JIRAError"
    /\ idx = 2
    /\ Len(issues) = 3

(* ---------------- C10 ---------------- *)
\* C10: for a url that does not end with '/' the run fails on the assertion
\* with no external call at all; for a url that ends with '/' there is at most
\* one GET and it goes to the url followed by 'api/json'.
C10_UrlPrecondition ==
    /\ (Len(url) = 0 \/ url[Len(url)] # 47) =>
          /\ calls = <<>>
          /\ log = <<>>
          /\ pc # "start" => (pc = "raised" /\ exc = "AssertionError")
    /\ CountOp("GET") <= 1
    /\ \A i \in 1..Len(calls) :
          calls[i].op = "GET" =>
              /\ url[Len(url)] = 47
              /\ calls[i].arg = url \o <<97, 112, 105, 47, 106, 115, 111, 110>>

C10_Witness ==
    /\ pc = "raised"
    /\ exc = "AssertionError"
    /\ Len(url) > 0

====
